---- MODULE Spec2Model ----
(***************************************************************************)
(* Model of app.py (assistente_rt): the term-dictionary loader, the        *)
(* hierarchy filter and the button handler that sequences the two oracles. *)
(*                                                                         *)
(* A string is a sequence of one-character strings, so that strip, split   *)
(* and replace are computed character by character.  A Python list is a    *)
(* sequence, a Python set is a set, and a Python dict is a sequence of     *)
(* [pai, filhos] entries in insertion order (dict iteration order).        *)
(***************************************************************************)
EXTENDS Integers, Sequences, FiniteSets, TLC

VARIABLES
    pc,                          \* position in the script / handler
    arquivo,                     \* the dictionary file: [estado, linhas]
    termo_dicionario,            \* app.py:256, list of terms
    mapa_hierarquia,             \* app.py:256, dict pai -> list of filhos
    api_key,                     \* get_api_key() result: TRUE when configured
    texto_proposicao,            \* app.py:263, the submitted text
    tipo_documento_selecionado,  \* app.py:236
    resumo_gerado,               \* app.py:274
    termos_sugeridos_brutos,     \* app.py:298
    termos_finais,               \* app.py:275
    chamadas_resumo,             \* requests.post calls of gerar_resumo, this click
    chamadas_termos              \* requests.post calls of gerar_termos_llm, this click

vars == <<pc, arquivo, termo_dicionario, mapa_hierarquia, api_key,
          texto_proposicao, tipo_documento_selecionado,
          resumo_gerado, termos_sugeridos_brutos, termos_finais,
          chamadas_resumo, chamadas_termos>>

(***************************************************************************)
(* Generic helpers for Python values.                                      *)
(***************************************************************************)
Range(s) == {s[i] : i \in DOMAIN s}

SeqsUpTo(S, n) == UNION {[1..k -> S] : k \in 0..n}

\* An optional list: None, or a list
Nenhum == [none |-> TRUE, valor |-> <<>>]

Algum(l) == [none |-> FALSE, valor |-> l]

\* All the orders in which list(set) may enumerate a set (app.py:74).
Listas(S) == {l \in [1..Cardinality(S) -> S] : Range(l) = S}

\* d[k] = v on a dict held as a function
DictPut(d, k, v) == [x \in (DOMAIN d) \cup {k} |-> IF x = k THEN v ELSE d[x]]

(***************************************************************************)
(* aplicar_logica_hierarquia (app.py:52-74)                                *)
(***************************************************************************)
\* app.py:62-63: for filho in filhos: mapa_inverso_hierarquia[filho] = pai
RECURSIVE InverterFilhos(_, _, _)
InverterFilhos(inverso, pai, filhos) ==
    IF filhos = <<>> THEN inverso
    ELSE InverterFilhos(DictPut(inverso, Head(filhos), pai), pai, Tail(filhos))

\* app.py:59-63: the inverse map; a later entry overwrites an earlier one
RECURSIVE InverterMapa(_, _)
InverterMapa(inverso, mapa) ==
    IF mapa = <<>> THEN inverso
    ELSE InverterMapa(InverterFilhos(inverso, Head(mapa).pai, Head(mapa).filhos),
                      Tail(mapa))

mapa_inverso_hierarquia(mapa) == InverterMapa(<<>>, mapa)

\* Mutation of AdicionarPai: assignment instead of set.add
AdicionarPai_atribui(remover, termo_pai) == {termo_pai}

\* app.py:70: termos_a_remover.add(termo_pai)
AdicionarPai(remover, termo_pai) == remover \cup {termo_pai}

\* app.py:65-70: one lookup of the direct parent per suggested term
RECURSIVE TermosARemover(_, _, _, _)
TermosARemover(remover, termos, inverso, finais) ==
    IF termos = <<>> THEN remover
    ELSE LET termo == Head(termos) IN
         IF termo \in DOMAIN inverso /\ inverso[termo] \in finais
         THEN TermosARemover(AdicionarPai(remover, inverso[termo]),
                             Tail(termos), inverso, finais)
         ELSE TermosARemover(remover, Tail(termos), inverso, finais)

\* app.py:58-72: the set the function holds before list() orders it
aplicar_logica_hierarquia(termos_sugeridos, mapa) ==
    LET finais  == Range(termos_sugeridos)
        inverso == mapa_inverso_hierarquia(mapa)
    IN  finais \ TermosARemover({}, termos_sugeridos, inverso, finais)

(***************************************************************************)
(* carregar_dicionario_termos (app.py:8-49)                                *)
(***************************************************************************)
\* Characters str.strip() removes (those of the modelled alphabet)
Espacos == {" ", "\t", "\n"}

RECURSIVE LStrip(_)
LStrip(s) == IF s # <<>> /\ Head(s) \in Espacos THEN LStrip(Tail(s)) ELSE s

RECURSIVE RStrip(_)
RStrip(s) ==
    IF s # <<>> /\ s[Len(s)] \in Espacos THEN RStrip(SubSeq(s, 1, Len(s) - 1))
    ELSE s

\* str.strip()
Strip(s) == RStrip(LStrip(s))

\* str.split(sep): the pieces between the occurrences of sep, empty ones kept
RECURSIVE SplitDesde(_, _, _, _)
SplitDesde(s, sep, atual, feitas) ==
    IF s = <<>> THEN Append(feitas, atual)
    ELSE IF Head(s) = sep THEN SplitDesde(Tail(s), sep, <<>>, Append(feitas, atual))
    ELSE SplitDesde(Tail(s), sep, Append(atual, Head(s)), feitas)

Split(s, sep) == SplitDesde(s, sep, <<>>, <<>>)

\* str.replace(c, '')
RECURSIVE Replace(_, _)
Replace(s, c) ==
    IF s = <<>> THEN <<>>
    ELSE IF Head(s) = c THEN Replace(Tail(s), c)
    ELSE <<Head(s)>> \o Replace(Tail(s), c)

\* [p.strip() for p in ps if p.strip()]
RECURSIVE StripNaoVazias(_)
StripNaoVazias(ps) ==
    IF ps = <<>> THEN <<>>
    ELSE IF Strip(Head(ps)) # <<>>
         THEN <<Strip(Head(ps))>> \o StripNaoVazias(Tail(ps))
         ELSE StripNaoVazias(Tail(ps))

\* app.py:24
Partes(line) == StripNaoVazias(Split(line, ">"))

\* Mutation of TermoEspecifico: the first level of the chain instead of the last
TermoEspecifico_primeiro(partes) == Replace(partes[1], "\t")

\* app.py:30-32: partes[-1] with the tabs removed
TermoEspecifico(partes) == Replace(partes[Len(partes)], "\t")

\* app.py:37: partes[-2] with the tabs removed
TermoPai(partes) == Replace(partes[Len(partes) - 1], "\t")

\* termo_pai in mapa_hierarquia
DictTem(mapa, pai) == \E i \in DOMAIN mapa : mapa[i].pai = pai

\* app.py:38-40: create the entry of termo_pai when absent, append the child
InserirAresta(mapa, pai, filho) ==
    LET m == IF DictTem(mapa, pai) THEN mapa
             ELSE Append(mapa, [pai |-> pai, filhos |-> <<>>])
    IN  [i \in DOMAIN m |->
            IF m[i].pai = pai
            THEN [pai |-> pai, filhos |-> Append(m[i].filhos, filho)]
            ELSE m[i]]

\* app.py:20-40: the body of the loop, for one line
CarregarLinha(d, linha) ==
    LET line == Strip(linha) IN
    IF line = <<>> \/ Head(line) = "#" THEN d
    ELSE LET partes == Partes(line) IN
         IF partes = <<>> THEN d
         ELSE [termos |-> Append(d.termos, TermoEspecifico(partes)),
               mapa   |-> IF Len(partes) > 1
                          THEN InserirAresta(d.mapa, TermoPai(partes),
                                             TermoEspecifico(partes))
                          ELSE d.mapa]

\* app.py:19: for line in f
RECURSIVE CarregarLinhas(_, _)
CarregarLinhas(d, linhas) ==
    IF linhas = <<>> THEN d
    ELSE CarregarLinhas(CarregarLinha(d, Head(linhas)), Tail(linhas))

DicionarioVazio == [termos |-> <<>>, mapa |-> <<>>]

\* app.py:14-49; a missing (FileNotFoundError) or unreadable (Exception) file
\* gives [], {}
carregar_dicionario_termos(arq) ==
    IF arq.estado = "ok" THEN CarregarLinhas(DicionarioVazio, arq.linhas)
    ELSE DicionarioVazio

\* list.remove(x): drops the first occurrence of x
RECURSIVE ListRemove(_, _)
ListRemove(l, x) ==
    IF l = <<>> THEN <<>>
    ELSE IF Head(l) = x THEN Tail(l)
    ELSE <<Head(l)>> \o ListRemove(Tail(l), x)

\* Mutation of RemoverTermo: every occurrence is dropped
RemoverTermo_todos(termos, x) == SelectSeq(termos, LAMBDA t : t # x)

\* app.py:259-260: if x in termos: termos.remove(x)
RemoverTermo(termos, x) ==
    IF x \in Range(termos) THEN ListRemove(termos, x) ELSE termos

(***************************************************************************)
(* Inputs: dictionary files, submitted texts, oracle answers               *)
(***************************************************************************)
tA == <<"A">>

tB == <<"B">>

tC == <<"C">>

LinhaVazia ==
    <<"\n">>

LinhaComentario ==
    <<"#", " ", "A", " ", ">", " ", "B", "\n">>

LinhaA ==
    <<"A", "\n">>

LinhaAB ==
    <<"A", " ", ">", " ", "B", "\n">>

LinhaBC ==
    <<" ", "B", ">", "C", " ", "\n">>

LinhaABC ==
    <<"A", " ", ">", " ", "B", " ", ">", " ", "C", "\n">>

LinhaNivelVazio ==
    <<"A", " ", ">", " ", "\t", " ", ">", " ", "B", "\n">>

LinhaSoSeparador ==
    <<" ", ">", " ", "\n">>

LinhaTab ==
    <<"A", "\t", "B", " ", ">", " ", "B", "\t", "C", "\n">>

LinhaMG ==
    <<"M", "i", "n", "a", "s", " ", "G", "e", "r", "a", "i", "s", " ",
    "(", "M", "G", ")", "\n">>

MinasGerais ==
    <<"M", "i", "n", "a", "s", " ", "G", "e", "r", "a", "i", "s", " ",
    "(", "M", "G", ")">>

ServidaoAdministrativa ==
    <<"S", "e", "r", "v", "i", "d", "ã", "o", " ", "A", "d", "m", "i",
    "n", "i", "s", "t", "r", "a", "t", "i", "v", "a">>

UtilidadePublica ==
    <<"U", "t", "i", "l", "i", "d", "a", "d", "e", " ", "P", "ú", "b",
    "l", "i", "c", "a">>

PoliticaPublica ==
    <<"P", "o", "l", "í", "t", "i", "c", "a", " ", "P", "ú", "b", "l",
    "i", "c", "a">>

LoremIpsum ==
    <<"L", "o", "r", "e", "m", " ", "I", "p", "s", "u", "m">>

Betim ==
    <<"B", "e", "t", "i", "m">>

\* Lines as `for line in f` yields them
Linhas ==
    {LinhaVazia, LinhaComentario, LinhaA, LinhaAB, LinhaBC, LinhaABC,
     LinhaNivelVazio, LinhaSoSeparador, LinhaTab, LinhaMG}

\* Longest dictionary file
MaxLinhas == 2

Arquivos ==
    {[estado |-> "ok", linhas |-> ls] : ls \in SeqsUpTo(Linhas, MaxLinhas)}
    \cup {[estado |-> "ausente", linhas |-> <<>>],
          [estado |-> "ilegivel", linhas |-> <<LinhaA>>]}

\* A submitted text with the outcome of the three regular expressions of
\* app.py:278, 281 and 301 on it (group(1).strip() where there is a match)
NaoCasa == [casa |-> FALSE, municipio |-> <<>>]

Casa(m) == [casa |-> TRUE, municipio |-> m]

TextoVazio ==
    [texto |-> "", servidao |-> NaoCasa, utilidade |-> NaoCasa, politica |-> FALSE]

TextoServidao ==
    [texto |-> "Declara de utilidade pública, para servidão, imóvel no Município de Betim",
     servidao |-> Casa(Betim), utilidade |-> Casa(Betim), politica |-> FALSE]

TextoUtilidade ==
    [texto |-> "Declara de utilidade pública a entidade com sede no Município de Betim",
     servidao |-> NaoCasa, utilidade |-> Casa(Betim), politica |-> FALSE]

TextoPolitica ==
    [texto |-> "Institui o programa estadual de alerta",
     servidao |-> NaoCasa, utilidade |-> NaoCasa, politica |-> TRUE]

TextoComum ==
    [texto |-> "Dispõe sobre o transporte ferroviário",
     servidao |-> NaoCasa, utilidade |-> NaoCasa, politica |-> FALSE]

Textos == {TextoVazio, TextoServidao, TextoUtilidade, TextoPolitica, TextoComum}

TiposDocumento == {"Proposição", "Requerimento"}

\* Strings the term oracle may put in a list
Sugestoes == {tA, tB, LoremIpsum}

\* Longest list the term oracle answers
MaxSug == 2

ListasSugeridas == SeqsUpTo(Sugestoes, MaxSug)

\* A bracketed piece of the answer text (app.py:195) and what json.loads
\* makes of it (app.py:203-210): "lista", it decodes to a list of strings;
\* "ignorado", json.loads raises JSONDecodeError or the value is not a list
\* of strings; "excecao", json.loads raises another exception (RecursionError
\* on a deeply nested piece), which the inner except does not catch
TrechoInvalido == [decodifica |-> "ignorado", lista |-> <<>>]

TrechoExcecao == [decodifica |-> "excecao", lista |-> <<>>]

TrechoLista(l) == [decodifica |-> "lista", lista |-> l]

\* Answers of the term oracle: an HTTP error, or a text with its bracketed pieces
RespostasTermos ==
    {[status |-> "HTTPError", trechos |-> <<>>],
     [status |-> "ok", trechos |-> <<>>],
     [status |-> "ok", trechos |-> <<TrechoInvalido>>]}
    \cup {[status |-> "ok", trechos |-> <<TrechoLista(l)>>] : l \in ListasSugeridas}
    \cup {[status |-> "ok", trechos |-> <<TrechoInvalido, TrechoLista(l)>>] :
            l \in ListasSugeridas}
    \cup {[status |-> "ok", trechos |-> <<TrechoExcecao, TrechoLista(l)>>] :
            l \in ListasSugeridas}
    \cup {[status |-> "ok", trechos |-> <<TrechoLista(l), TrechoLista(<<LoremIpsum>>)>>] :
            l \in ListasSugeridas}

RespostasResumo == {"ok", "HTTPError"}

(***************************************************************************)
(* The two oracles (app.py:93-152 and 155-219)                             *)
(***************************************************************************)
SemResumo == "Não precisa de resumo."

FalhaResumo ==
    "Não foi possível gerar o resumo. Verifique a chave de API e tente novamente."

\* app.py:98-152: None without a key, the text of the answer, or the failure text
gerar_resumo(key, resposta) ==
    IF ~key THEN "None"
    ELSE IF resposta = "ok" THEN "<texto do resumo>"
    ELSE FalhaResumo

\* app.py:143: requests.post runs once when there is a key
PostsGerarResumo(key, resposta) == IF key THEN 1 ELSE 0

\* app.py:192-219: the first piece that decodes to a list of strings; a piece
\* that raises JSONDecodeError or is no list of strings is passed over; any
\* other exception leaves the loop for app.py:216-219, which returns []; []
\* also when no piece is left
RECURSIVE PrimeiraLista(_)
PrimeiraLista(trechos) ==
    IF trechos = <<>> THEN <<>>
    ELSE IF Head(trechos).decodifica = "lista" THEN Head(trechos).lista
    ELSE IF Head(trechos).decodifica = "excecao" THEN <<>>
    ELSE PrimeiraLista(Tail(trechos))

\* app.py:160-219: None without a key, [] on an error, else the parsed list
gerar_termos_llm(key, resposta) ==
    IF ~key THEN Nenhum
    ELSE IF resposta.status # "ok" THEN Algum(<<>>)
    ELSE Algum(PrimeiraLista(resposta.trechos))

\* Mutation of PostsGerarTermos: one more post after a failed one
PostsGerarTermos_repete(key, resposta) ==
    IF ~key THEN 0 ELSE IF resposta.status # "ok" THEN 2 ELSE 1

\* app.py:185: requests.post runs once when there is a key
PostsGerarTermos(key, resposta) == IF key THEN 1 ELSE 0

(***************************************************************************)
(* The script (app.py:221-320), one execution of it                        *)
(***************************************************************************)
Init ==
    /\ pc = "inicio"
    /\ arquivo \in Arquivos
    /\ termo_dicionario = <<>>
    /\ mapa_hierarquia = <<>>
    /\ api_key \in BOOLEAN
    /\ texto_proposicao = TextoVazio
    /\ tipo_documento_selecionado \in TiposDocumento
    /\ resumo_gerado = ""
    /\ termos_sugeridos_brutos = Nenhum
    /\ termos_finais = <<>>
    /\ chamadas_resumo = 0
    /\ chamadas_termos = 0

\* app.py:255-256
Carregar ==
    /\ pc = "inicio"
    /\ LET d == carregar_dicionario_termos(arquivo) IN
        /\ termo_dicionario' = d.termos
        /\ mapa_hierarquia' = d.mapa
    /\ pc' = "carregado"
    /\ UNCHANGED <<arquivo, api_key, texto_proposicao, tipo_documento_selecionado,
                   resumo_gerado, termos_sugeridos_brutos, termos_finais,
                   chamadas_resumo, chamadas_termos>>

\* app.py:259-260
RemoverMinasGerais ==
    /\ pc = "carregado"
    /\ termo_dicionario' = RemoverTermo(termo_dicionario, MinasGerais)
    /\ pc' = "pronto"
    /\ UNCHANGED <<arquivo, mapa_hierarquia, api_key, texto_proposicao,
                   tipo_documento_selecionado, resumo_gerado,
                   termos_sugeridos_brutos, termos_finais,
                   chamadas_resumo, chamadas_termos>>

\* app.py:263-296: the button is pressed on a text; the part of the handler
\* that runs before the first oracle call
Clicar ==
    /\ pc = "pronto"
    /\ \E texto \in Textos :
        /\ texto_proposicao' = texto
        /\ IF texto.texto = ""
           THEN /\ pc' = "fim"
                /\ UNCHANGED <<resumo_gerado, termos_finais>>
           ELSE IF texto.servidao.casa
           THEN /\ termos_finais' = <<ServidaoAdministrativa, texto.servidao.municipio>>
                /\ resumo_gerado' = SemResumo
                /\ pc' = "exibir"
           ELSE IF texto.utilidade.casa
           THEN /\ termos_finais' = <<UtilidadePublica, texto.utilidade.municipio>>
                /\ resumo_gerado' = SemResumo
                /\ pc' = "exibir"
           ELSE IF tipo_documento_selecionado = "Proposição"
           THEN /\ termos_finais' = <<>>
                /\ resumo_gerado' = ""
                /\ pc' = "resumo"
           ELSE /\ termos_finais' = <<>>
                /\ resumo_gerado' = SemResumo
                /\ pc' = "termos"
    /\ UNCHANGED <<arquivo, termo_dicionario, mapa_hierarquia, api_key,
                   tipo_documento_selecionado, termos_sugeridos_brutos,
                   chamadas_resumo, chamadas_termos>>

\* app.py:294
GerarResumo ==
    /\ pc = "resumo"
    /\ \E resposta \in RespostasResumo :
        /\ resumo_gerado' = gerar_resumo(api_key, resposta)
        /\ chamadas_resumo' = chamadas_resumo + PostsGerarResumo(api_key, resposta)
    /\ pc' = "termos"
    /\ UNCHANGED <<arquivo, termo_dicionario, mapa_hierarquia, api_key,
                   texto_proposicao, tipo_documento_selecionado,
                   termos_sugeridos_brutos, termos_finais, chamadas_termos>>

\* app.py:298
GerarTermos ==
    /\ pc = "termos"
    /\ \E resposta \in RespostasTermos :
        /\ termos_sugeridos_brutos' = gerar_termos_llm(api_key, resposta)
        /\ chamadas_termos' = chamadas_termos + PostsGerarTermos(api_key, resposta)
    /\ pc' = "hierarquia"
    /\ UNCHANGED <<arquivo, termo_dicionario, mapa_hierarquia, api_key,
                   texto_proposicao, tipo_documento_selecionado,
                   resumo_gerado, termos_finais, chamadas_resumo>>

\* app.py:301-303: "Política Pública" is appended to the oracle's list
AdicionarPoliticaPublica(texto, brutos) ==
    IF texto.politica /\ ~brutos.none /\ PoliticaPublica \notin Range(brutos.valor)
    THEN Algum(Append(brutos.valor, PoliticaPublica))
    ELSE brutos

\* app.py:301-309
AplicarHierarquia ==
    /\ pc = "hierarquia"
    /\ LET brutos == AdicionarPoliticaPublica(texto_proposicao, termos_sugeridos_brutos) IN
        /\ termos_sugeridos_brutos' = brutos
        /\ IF ~brutos.none
           THEN termos_finais' \in
                    Listas(aplicar_logica_hierarquia(brutos.valor, mapa_hierarquia))
           ELSE termos_finais' = <<>>
    /\ pc' = "exibir"
    /\ UNCHANGED <<arquivo, termo_dicionario, mapa_hierarquia, api_key,
                   texto_proposicao, tipo_documento_selecionado,
                   resumo_gerado, chamadas_resumo, chamadas_termos>>

\* app.py:311-320: the summary and the terms are written to the page
Exibir ==
    /\ pc = "exibir"
    /\ pc' = "fim"
    /\ UNCHANGED <<arquivo, termo_dicionario, mapa_hierarquia, api_key,
                   texto_proposicao, tipo_documento_selecionado, resumo_gerado,
                   termos_sugeridos_brutos, termos_finais,
                   chamadas_resumo, chamadas_termos>>

Next ==
    \/ Carregar
    \/ RemoverMinasGerais
    \/ Clicar
    \/ GerarResumo
    \/ GerarTermos
    \/ AplicarHierarquia
    \/ Exibir

Spec == Init /\ [][Next]_vars

(***************************************************************************)
(* aplicar_logica_hierarquia alone, on bounded maps and candidate lists.   *)
(* A map is what the loader builds from a list of (pai, filho) lines, so   *)
(* chains, several parents of one child, repeated lines and cycles occur.  *)
(***************************************************************************)
TermosFiltro == {tA, tB, tC}

\* Most edge lines a map is built from
MaxArestas == 3

RECURSIVE MapaDeArestas(_, _)
MapaDeArestas(mapa, arestas) ==
    IF arestas = <<>> THEN mapa
    ELSE MapaDeArestas(InserirAresta(mapa, Head(arestas)[1], Head(arestas)[2]),
                       Tail(arestas))

MapasFiltro ==
    {MapaDeArestas(<<>>, as) : as \in SeqsUpTo(TermosFiltro \X TermosFiltro, MaxArestas)}

\* Candidate lists: up to as many entries as there are terms
CandidatosFiltro == SeqsUpTo(TermosFiltro, Cardinality(TermosFiltro))

InitFiltro ==
    /\ pc = "filtro"
    /\ arquivo = [estado |-> "ausente", linhas |-> <<>>]
    /\ termo_dicionario = <<>>
    /\ mapa_hierarquia \in MapasFiltro
    /\ api_key = FALSE
    /\ texto_proposicao = TextoComum
    /\ tipo_documento_selecionado = "Requerimento"
    /\ resumo_gerado = ""
    /\ termos_sugeridos_brutos \in {Algum(c) : c \in CandidatosFiltro}
    /\ termos_finais = <<>>
    /\ chamadas_resumo = 0
    /\ chamadas_termos = 0

\* app.py:307: termos_finais = aplicar_logica_hierarquia(brutos, mapa)
Filtrar ==
    /\ pc = "filtro"
    /\ termos_finais' \in
         Listas(aplicar_logica_hierarquia(termos_sugeridos_brutos.valor, mapa_hierarquia))
    /\ pc' = "filtrado"
    /\ UNCHANGED <<arquivo, termo_dicionario, mapa_hierarquia, api_key,
                   texto_proposicao, tipo_documento_selecionado, resumo_gerado,
                   termos_sugeridos_brutos, chamadas_resumo, chamadas_termos>>

\* The function applied to its own result: the result becomes the input
Refiltrar ==
    /\ pc = "filtrado"
    /\ termos_sugeridos_brutos' = Algum(termos_finais)
    /\ termos_finais' \in
         Listas(aplicar_logica_hierarquia(termos_finais, mapa_hierarquia))
    /\ pc' = "refiltrado"
    /\ UNCHANGED <<arquivo, termo_dicionario, mapa_hierarquia, api_key,
                   texto_proposicao, tipo_documento_selecionado, resumo_gerado,
                   chamadas_resumo, chamadas_termos>>

NextFiltro ==
    \/ Filtrar
    \/ Refiltrar

SpecFiltro == InitFiltro /\ [][NextFiltro]_vars

(***************************************************************************)
(* Vocabulary of the properties: the hierarchy as the map records it       *)
(***************************************************************************)
\* pai -> filho is an edge of the map
Aresta(mapa, pai, filho) ==
    \E i \in DOMAIN mapa : mapa[i].pai = pai /\ filho \in Range(mapa[i].filhos)

\* Every term the map mentions
TermosDoMapa(mapa) ==
    {mapa[i].pai : i \in DOMAIN mapa}
    \cup UNION {Range(mapa[i].filhos) : i \in DOMAIN mapa}

\* Terms reached from the set S by going down n edges or fewer, at least one
RECURSIVE Descendentes(_, _, _)
Descendentes(mapa, S, n) ==
    LET filhos == {f \in TermosDoMapa(mapa) : \E p \in S : Aresta(mapa, p, f)} IN
    IF n = 0 THEN {}
    ELSE filhos \cup Descendentes(mapa, filhos, n - 1)

\* a is an ancestor of d through one or more edges
Ancestral(mapa, a, d) ==
    d \in Descendentes(mapa, {a}, Cardinality(TermosDoMapa(mapa)))

\* No term is its own ancestor
Aciclico(mapa) == \A t \in TermosDoMapa(mapa) : ~Ancestral(mapa, t, t)

\* Every child is recorded under one parent only
PaiUnico(mapa) ==
    \A f \in TermosDoMapa(mapa) : \A p \in TermosDoMapa(mapa) : \A q \in TermosDoMapa(mapa) :
        (Aresta(mapa, p, f) /\ Aresta(mapa, q, f)) => p = q

Candidatos == Range(termos_sugeridos_brutos.valor)

Resultado == Range(termos_finais)

(***************************************************************************)
(* Claims about aplicar_logica_hierarquia, under SpecFiltro                *)
(***************************************************************************)
\* C1: every candidate that is a strict ancestor, through one or more edges,
\* of another candidate is absent from the result; stated for the hierarchies
\* the claim's example is about (no cycle, one parent per child), where the
\* ancestors of a term form a single chain.
C1_RemoveTodoAncestral ==
    (pc = "filtrado" /\ Aciclico(mapa_hierarquia) /\ PaiUnico(mapa_hierarquia)) =>
        \A a \in Candidatos :
            (\E d \in Candidatos : d # a /\ Ancestral(mapa_hierarquia, a, d))
                => a \notin Resultado

\* C2: for every recorded edge pai -> filho with both among the candidates,
\* the result does not contain the parent, also when the child is listed
\* under more than one parent (the half of the claim about the parent, on
\* maps without a cycle).
C2_ArestaRemovePai ==
    (pc = "filtrado" /\ Aciclico(mapa_hierarquia)) =>
        \A p \in Candidatos : \A f \in Candidatos :
            (p # f /\ Aresta(mapa_hierarquia, p, f)) => p \notin Resultado

\* C4: the filter applied to its own result returns the same set.
C4_Idempotente ==
    pc = "refiltrado" => Resultado = Candidatos

\* C4 witness: a second pass over a non-empty result of a map with a cycle
\* or a child of two parents, in which a kept term has a recorded parent.
C4_Witness ==
    /\ pc = "refiltrado"
    /\ \E c \in Resultado : \E p \in TermosDoMapa(mapa_hierarquia) :
           Aresta(mapa_hierarquia, p, c)
    /\ \E a \in TermosDoMapa(mapa_hierarquia) : \E b \in TermosDoMapa(mapa_hierarquia) :
           /\ a # b
           /\ \/ Aresta(mapa_hierarquia, a, b) /\ Aresta(mapa_hierarquia, b, a)
              \/ \E f \in TermosDoMapa(mapa_hierarquia) :
                     Aresta(mapa_hierarquia, a, f) /\ Aresta(mapa_hierarquia, b, f)

\* C6: with the cycle a -> b, b -> a recorded, the candidates on the cycle
\* come back unfiltered (no MalformedHierarchy is ever reported by the code),
\* so the members of the cycle are never all removed.
C6_CicloNaoFiltrado ==
    pc = "filtrado" =>
        \A a \in Candidatos : \A b \in Candidatos :
            (a # b /\ Aresta(mapa_hierarquia, a, b) /\ Aresta(mapa_hierarquia, b, a))
                => (a \in Resultado /\ b \in Resultado)

\* C8: the result is a subset of the candidates, a removed candidate is an
\* ancestor of another candidate, and a term in no edge is kept.
C8_SemRemocaoIndevida ==
    pc = "filtrado" =>
        /\ Resultado \subseteq Candidatos
        /\ \A c \in Candidatos \ Resultado :
               \E d \in Candidatos : d # c /\ Ancestral(mapa_hierarquia, c, d)
        /\ \A c \in Candidatos :
               c \notin TermosDoMapa(mapa_hierarquia) => c \in Resultado


(***************************************************************************)
(* Claims about the loader and the script, under Spec                      *)
(***************************************************************************)
\* The text took the branch of app.py:291-309 (neither "utilidade pública"
\* pattern matched)
CaminhoNormal ==
    /\ texto_proposicao.texto # ""
    /\ ~texto_proposicao.servidao.casa
    /\ ~texto_proposicao.utilidade.casa

Termos == Range(termo_dicionario)

\* The levels of a line: split on ">", stripped, blank ones dropped, tabs
\* removed; none for a blank line or a comment
Niveis(linha) ==
    LET line == Strip(linha) IN
    IF line = <<>> \/ Head(line) = "#" THEN <<>>
    ELSE LET ps == Partes(line) IN [i \in DOMAIN ps |-> Replace(ps[i], "\t")]

\* C3: on the normal path, with a dictionary that has terms and a text to
\* which no term is added by rule, every term of the final list is a member
\* of the loaded Terms.
C3_FinaisNoDicionario ==
    (/\ pc = "exibir"
     /\ CaminhoNormal
     /\ ~texto_proposicao.politica
     /\ termo_dicionario # <<>>) =>
        Resultado \subseteq Termos

\* C5: on the normal path, for a text to which no term is added by rule, an
\* empty dictionary or an empty (or absent) oracle answer gives an empty
\* final list.
C5_EntradaVaziaSaidaVazia ==
    (/\ pc = "exibir"
     /\ CaminhoNormal
     /\ ~texto_proposicao.politica
     /\ (termo_dicionario = <<>> \/ termos_sugeridos_brutos.valor = <<>>)) =>
        termos_finais = <<>>

\* C7 as stated: after the load every level of every line is in Terms, every
\* adjacent pair of levels is an edge, and both ends of every edge are in Terms.
C7_TodosOsNiveis ==
    (pc = "carregado" /\ arquivo.estado = "ok") =>
        /\ \A k \in DOMAIN arquivo.linhas :
               LET ns == Niveis(arquivo.linhas[k]) IN
               /\ \A i \in DOMAIN ns : ns[i] \in Termos
               /\ \A i \in DOMAIN ns :
                      i > 1 => Aresta(mapa_hierarquia, ns[i - 1], ns[i])
        /\ \A p \in TermosDoMapa(mapa_hierarquia) : p \in Termos

\* C7 amended: after the load the last level of every line that has one is in
\* Terms, the last two levels of every line with two or more form an edge
\* (second-last -> last), and the child end of every edge is in Terms.
C7_UltimoNivel ==
    (pc = "carregado" /\ arquivo.estado = "ok") =>
        /\ \A k \in DOMAIN arquivo.linhas :
               LET ns == Niveis(arquivo.linhas[k]) IN
               /\ ns # <<>> => ns[Len(ns)] \in Termos
               /\ Len(ns) > 1 => Aresta(mapa_hierarquia, ns[Len(ns) - 1], ns[Len(ns)])
        /\ \A i \in DOMAIN mapa_hierarquia :
               Range(mapa_hierarquia[i].filhos) \subseteq Termos

\* C7 witness: a file with a three-level line and a line with tabs inside its
\* levels has been loaded.
C7_Witness ==
    /\ pc = "carregado"
    /\ arquivo.estado = "ok"
    /\ arquivo.linhas = <<LinhaABC, LinhaTab>>
    /\ Len(mapa_hierarquia) = 2
    /\ Len(termo_dicionario) = 2

\* C9 as stated: once carregar_dicionario_termos has returned, no step changes
\* the terms or the edges.
C9_DicionarioFixo ==
    [][pc # "inicio" =>
          (termo_dicionario' = termo_dicionario /\ mapa_hierarquia' = mapa_hierarquia)]_vars

\* l without its first occurrence of x, l itself when x does not occur
SemPrimeira(l, m, x) ==
    IF x \notin Range(l) THEN m = l
    ELSE \E i \in DOMAIN l :
            /\ l[i] = x
            /\ \A j \in 1..(i - 1) : l[j] # x
            /\ m = SubSeq(l, 1, i - 1) \o SubSeq(l, i + 1, Len(l))

\* C9 amended: once the load has returned, no step changes the edges, and the
\* only change to the terms is the start-up edit that drops the first
\* occurrence of "Minas Gerais (MG)"; after it nothing changes.
C9_SoAEdicaoInicial ==
    [][pc # "inicio" =>
          /\ mapa_hierarquia' = mapa_hierarquia
          /\ pc # "carregado" => termo_dicionario' = termo_dicionario
          /\ pc = "carregado" =>
                 SemPrimeira(termo_dicionario, termo_dicionario', MinasGerais)]_vars

\* C9 witness: the file listed "Minas Gerais (MG)" twice, the edit dropped one,
\* and the handler went through both oracles and the filter.
C9_Witness ==
    /\ pc = "fim"
    /\ arquivo.linhas = <<LinhaMG, LinhaMG>>
    /\ termo_dicionario = <<MinasGerais>>
    /\ chamadas_termos = 1
    /\ termos_finais # <<>>

\* C10: for one submitted text, on every path, each oracle is posted to at
\* most once, and not at all when a "utilidade pública" pattern matched or
\* (for the summary) the document is a Requerimento.
C10_NoMaximoUmaChamada ==
    /\ chamadas_termos <= 1
    /\ chamadas_resumo <= 1
    /\ (pc \in {"exibir", "fim"} /\ ~CaminhoNormal) =>
           (chamadas_termos = 0 /\ chamadas_resumo = 0)
    /\ tipo_documento_selecionado = "Requerimento" => chamadas_resumo = 0

\* C10 witness: both oracles were called and both failed; the handler went on
\* to the display with one call each.
C10_Witness ==
    /\ pc = "exibir"
    /\ CaminhoNormal
    /\ resumo_gerado = FalhaResumo
    /\ termos_sugeridos_brutos = Algum(<<>>)
    /\ chamadas_resumo = 1
    /\ chamadas_termos = 1

====
